---- MODULE Spec2Model ----
(***************************************************************************)
(* Model of src/main.py: the Recaman sequence generator (RecamanSequence)  *)
(* and the animation state machine of RecamanVisualization (startup,      *)
(* frame loop: handleEvents -> update -> draw -> clock.tick).              *)
(*                                                                         *)
(* Python lists are 0-based; the TLA+ sequences below are 1-based, so the  *)
(* Python term sequence[n] is At(sequence, n) = sequence[n + 1].           *)
(***************************************************************************)
EXTENDS Integers, Sequences, FiniteSets, TLC

\* ------------------------------------------------------------------ bounds
\* largest config["maxTerms"] drawn in Init of the program specification
MaxTerms == 4
\* largest number of events one pygame.event.get() call returns
MaxEvents == 2
\* the tick history counter is re-anchored after this many ticks
TickBound == 5
\* longest sequence built by the generator specification
MaxLen == 20
\* largest config["maxTerms"] drawn in Init of the startup specification
MaxStartTerms == 8
\* largest totalArcs passed to the ArcVisualizer methods by the class specification
MaxArcs == 5
\* largest sequence value passed to drawArc by the class specification
MaxVal == 2
\* largest arcSettings["segments"] drawn by the class specification
MaxSegments == 3

VARIABLES
    pc,          \* position of the program / last call of the generator API
    config,      \* self.config, the settings loaded from config.json
    maxTerms,    \* self.maxTerms = config["maxTerms"]
    sequence,    \* RecamanSequence.sequence
    seen,        \* RecamanSequence.seen
    currentStep, \* RecamanSequence.currentStep
    numTerms,    \* argument of the latest generateTerms call
    maxValue,    \* value returned by the latest getMaxValue call
    currentArc,  \* RecamanVisualization.currentArc
    running,     \* RecamanVisualization.running
    paused,      \* RecamanVisualization.paused
    scale,       \* RecamanVisualization.scale
    offsetX,     \* RecamanVisualization.offsetX
    offsetY,     \* RecamanVisualization.offsetY
    call,        \* the latest direct call of an ArcVisualizer method, with its result
    events,      \* the list returned by the latest pygame.event.get()
    display,     \* drawing commands issued by the latest draw() (or direct method call)
    frameLog,    \* history: phases of run() executed in the current frame
    baseArc,     \* history: currentArc when the playback state was last set by input
    ticks        \* history: update() calls since baseArc was recorded

vars == <<pc, config, maxTerms, sequence, seen, currentStep, numTerms, maxValue,
          currentArc, running, paused, scale, offsetX, offsetY, call,
          events, display, frameLog, baseArc, ticks>>

genVars == <<sequence, seen, currentStep>>
viewVars == <<currentArc, running, paused, events, display, frameLog, baseArc, ticks>>
transformVars == <<scale, offsetX, offsetY>>

\* ----------------------------------------------------------------- helpers
At(seq, i) == seq[i + 1]

Last(seq) == seq[Len(seq)]

Range(seq) == {seq[k] : k \in 1..Len(seq)}

Min(a, b) == IF a < b THEN a ELSE b

Max(a, b) == IF a > b THEN a ELSE b

\* ------------------------------------------------------------ Python floats
\* A Python float is an IEEE-754 double.  Natural numbers of any size are
\* kept as sequences of 15-bit limbs, least significant limb first, without
\* a leading (highest) zero limb; <<>> is 0.
Base == 32768

LimbBits == 15

RECURSIVE BigOfNat(_)
BigOfNat(n) == IF n = 0 THEN <<>> ELSE <<n % Base>> \o BigOfNat(n \div Base)

RECURSIVE NatOfBig(_)
NatOfBig(b) == IF b = <<>> THEN 0 ELSE b[1] + Base * NatOfBig(Tail(b))

RECURSIVE BigTrim(_)
BigTrim(b) ==
    IF b = <<>> THEN <<>>
    ELSE IF b[Len(b)] = 0 THEN BigTrim(SubSeq(b, 1, Len(b) - 1))
    ELSE b

BigLimb(b, i) == IF 1 <= i /\ i <= Len(b) THEN b[i] ELSE 0

\* number of bits of a limb and of a bignum
LimbLen(x) == IF x = 0 THEN 0 ELSE CHOOSE k \in 1..LimbBits : 2^(k - 1) <= x /\ x < 2^k

BigBitLen(b) == IF b = <<>> THEN 0 ELSE LimbBits * (Len(b) - 1) + LimbLen(b[Len(b)])

\* b * 2^k and b \div 2^k
BigShl(b, k) ==
    LET q == k \div LimbBits
        r == k % LimbBits
        hi == 2^(LimbBits - r)
    IN  BigTrim([i \in 1..(Len(b) + q + 1) |->
                    IF i <= q THEN 0
                    ELSE (BigLimb(b, i - q) % hi) * 2^r + (BigLimb(b, i - q - 1) \div hi)])

BigShr(b, k) ==
    LET q == k \div LimbBits
        r == k % LimbBits
    IN  BigTrim([i \in 1..(Len(b) - q) |->
                    (BigLimb(b, i + q) \div 2^r)
                    + (BigLimb(b, i + q + 1) % 2^r) * 2^(LimbBits - r)])

\* bit i of b, counted from 1 at the least significant end
BigBit(b, i) ==
    (BigLimb(b, ((i - 1) \div LimbBits) + 1) \div 2^((i - 1) % LimbBits)) % 2

\* some bit among the lowest k bits of b is set
BigLowSet(b, k) ==
    \/ \E i \in 1..(k \div LimbBits) : BigLimb(b, i) # 0
    \/ BigLimb(b, (k \div LimbBits) + 1) % 2^(k % LimbBits) # 0

RECURSIVE BigAddFrom(_, _, _, _)
BigAddFrom(a, b, i, carry) ==
    IF i > Len(a) /\ i > Len(b)
    THEN (IF carry = 1 THEN <<1>> ELSE <<>>)
    ELSE LET t == BigLimb(a, i) + BigLimb(b, i) + carry
         IN  <<t % Base>> \o BigAddFrom(a, b, i + 1, t \div Base)

BigAdd(a, b) == BigAddFrom(a, b, 1, 0)

\* a - b for a >= b
RECURSIVE BigSubFrom(_, _, _, _)
BigSubFrom(a, b, i, borrow) ==
    IF i > Len(a)
    THEN <<>>
    ELSE LET t == BigLimb(a, i) - BigLimb(b, i) - borrow
         IN  <<(t + Base) % Base>> \o BigSubFrom(a, b, i + 1, IF t < 0 THEN 1 ELSE 0)

BigSub(a, b) == BigTrim(BigSubFrom(a, b, 1, 0))

\* -1, 0 or 1 as a < b, a = b, a > b
RECURSIVE BigCmpFrom(_, _, _)
BigCmpFrom(a, b, i) ==
    IF i = 0 THEN 0
    ELSE IF a[i] > b[i] THEN 1
    ELSE IF a[i] < b[i] THEN -1
    ELSE BigCmpFrom(a, b, i - 1)

BigCmp(a, b) ==
    IF Len(a) > Len(b) THEN 1
    ELSE IF Len(a) < Len(b) THEN -1
    ELSE BigCmpFrom(a, b, Len(a))

\* a * c for one limb c
RECURSIVE BigMulLimbFrom(_, _, _, _)
BigMulLimbFrom(a, c, i, carry) ==
    IF i > Len(a)
    THEN (IF carry = 0 THEN <<>> ELSE <<carry>>)
    ELSE LET t == a[i] * c + carry
         IN  <<t % Base>> \o BigMulLimbFrom(a, c, i + 1, t \div Base)

\* a * b, limb by limb of b
RECURSIVE BigMulFrom(_, _, _)
BigMulFrom(a, b, j) ==
    IF j > Len(b) THEN <<>>
    ELSE BigAdd([i \in 1..(j - 1) |-> 0] \o BigMulLimbFrom(a, b[j], 1, 0),
                BigMulFrom(a, b, j + 1))

BigMul(a, b) == IF a = <<>> \/ b = <<>> THEN <<>> ELSE BigTrim(BigMulFrom(a, b, 1))

\* long division of a by the positive d < 2^16, from limb i down:
\* <<quotient limbs (most significant first), remainder>>
RECURSIVE BigDivFrom(_, _, _, _)
BigDivFrom(a, d, i, r) ==
    IF i = 0
    THEN <<<<>>, r>>
    ELSE LET t == r * Base + a[i]
             rest == BigDivFrom(a, d, i - 1, t % d)
         IN  <<<<t \div d>> \o rest[1], rest[2]>>

Reverse(seq) == [i \in 1..Len(seq) |-> seq[Len(seq) + 1 - i]]

\* a double: sign s (1 or -1), 53-bit significand m (or <<>> for zero) and
\* exponent e; its value is s * m * 2^e
FZero == [s |-> 1, m |-> <<>>, e |-> 0]

\* the double nearest to s * b * 2^e, ties to even
FRound(s, b, e) ==
    IF b = <<>> THEN FZero
    ELSE IF BigBitLen(b) <= 53
    THEN [s |-> s, m |-> BigShl(b, 53 - BigBitLen(b)), e |-> e - (53 - BigBitLen(b))]
    ELSE LET d == BigBitLen(b) - 53
             kept == BigShr(b, d)
             up == BigBit(b, d) = 1 /\ (BigLowSet(b, d - 1) \/ kept[1] % 2 = 1)
             r == IF up THEN BigAdd(kept, <<1>>) ELSE kept
         IN  IF BigBitLen(r) = 54
             THEN [s |-> s, m |-> BigShr(r, 1), e |-> e + d + 1]
             ELSE [s |-> s, m |-> r, e |-> e + d]

\* the value of an attribute that holds no float (not assigned yet, or the operation raised)
Unset == [s |-> 0, m |-> <<>>, e |-> 0]

Sign(n) == IF n < 0 THEN -1 ELSE 1

Abs(n) == IF n < 0 THEN -n ELSE n

\* float(n) for an int n
FOfInt(n) == FRound(Sign(n), BigOfNat(Abs(n)), 0)

\* a / b for ints a and b # 0 (true division): the quotient of a * 2^75 by b
\* with a sticky bit for the remainder, rounded
FDivInt(a, b) ==
    IF a = 0 THEN FZero
    ELSE LET num == <<0, 0, 0, 0, 0>> \o BigOfNat(Abs(a))
             qr == BigDivFrom(num, Abs(b), Len(num), 0)
             q == BigTrim(Reverse(qr[1]))
             st == IF qr[2] # 0 THEN <<1>> ELSE <<>>
         IN  FRound(Sign(a) * Sign(b), BigAdd(BigShl(q, 1), st), -76)

\* x * y for floats
FMul(x, y) == FRound(x.s * y.s, BigMul(x.m, y.m), x.e + y.e)

\* the exact signed sum of two floats as <<sign, bignum, exponent>>
FSumExact(x, y) ==
    IF x.m = <<>> THEN <<y.s, y.m, y.e>>
    ELSE IF y.m = <<>> THEN <<x.s, x.m, x.e>>
    ELSE LET e == Min(x.e, y.e)
             a == BigShl(x.m, x.e - e)
             b == BigShl(y.m, y.e - e)
         IN  IF x.s = y.s THEN <<x.s, BigAdd(a, b), e>>
             ELSE IF BigCmp(a, b) >= 0 THEN <<x.s, BigSub(a, b), e>>
             ELSE <<y.s, BigSub(b, a), e>>

\* x + y for floats
FAdd(x, y) ==
    LET t == FSumExact(x, y)
    IN  FRound(t[1], t[2], t[3])

FNeg(x) == IF x.m = <<>> THEN x ELSE [x EXCEPT !.s = -x.s]

\* -1, 0 or 1 as x < y, x = y, x > y
FCmp(x, y) ==
    LET t == FSumExact(x, FNeg(y))
    IN  IF t[2] = <<>> THEN 0 ELSE t[1]

\* int(x): truncation toward zero
FTrunc(x) ==
    IF x.m = <<>> THEN 0
    ELSE IF x.e >= 0 THEN x.s * NatOfBig(BigShl(x.m, x.e))
    ELSE x.s * NatOfBig(BigShr(x.m, -x.e))

\* ------------------------------------------------------- RecamanSequence
\* the generator object as a record of its three fields
Gen(s, sn, st) == [sequence |-> s, seen |-> sn, currentStep |-> st]

\* __init__: sequence = [0], seen = {0}, currentStep = 1
NewGen == Gen(<<0>>, {0}, 1)

\* generateNext with the uniqueness test dropped
generateNextNoSeen(g) ==
    LET lastValue == Last(g.sequence)
        candidate == lastValue - g.currentStep
        nextValue == IF candidate > 0
                     THEN candidate
                     ELSE lastValue + g.currentStep
    IN  Gen(Append(g.sequence, nextValue), g.seen \cup {nextValue}, g.currentStep + 1)

\* generateNext that appends to the list but not to the set
generateNextNoAdd(g) ==
    LET lastValue == Last(g.sequence)
        candidate == lastValue - g.currentStep
        nextValue == IF candidate > 0 /\ candidate \notin g.seen
                     THEN candidate
                     ELSE lastValue + g.currentStep
    IN  Gen(Append(g.sequence, nextValue), g.seen, g.currentStep + 1)

\* generateNext with the positivity test dropped
generateNextAnySign(g) ==
    LET lastValue == Last(g.sequence)
        candidate == lastValue - g.currentStep
        nextValue == IF candidate \notin g.seen
                     THEN candidate
                     ELSE lastValue + g.currentStep
    IN  Gen(Append(g.sequence, nextValue), g.seen \cup {nextValue}, g.currentStep + 1)

generateNext(g) ==
    LET lastValue == Last(g.sequence)
        candidate == lastValue - g.currentStep
        nextValue == IF candidate > 0 /\ candidate \notin g.seen
                     THEN candidate
                     ELSE lastValue + g.currentStep
    IN  Gen(Append(g.sequence, nextValue), g.seen \cup {nextValue}, g.currentStep + 1)

\* generateTerms whose loop test is <= instead of <
RECURSIVE generateTermsOneMore(_, _)
generateTermsOneMore(g, n) ==
    IF Len(g.sequence) <= n
    THEN generateTermsOneMore(generateNext(g), n)
    ELSE g

RECURSIVE generateTerms(_, _)
generateTerms(g, n) ==
    IF Len(g.sequence) < n
    THEN generateTerms(generateNext(g), n)
    ELSE g

\* getMaxValue that takes the minimum
getMaxValueMin(seq) ==
    IF seq # <<>>
    THEN CHOOSE m \in Range(seq) : \A v \in Range(seq) : m <= v
    ELSE 0

getMaxValue(seq) ==
    IF seq # <<>>
    THEN CHOOSE m \in Range(seq) : \A v \in Range(seq) : v <= m
    ELSE 0

\* ----------------------------------------------------------- ArcVisualizer
\* interpolateColor whose denominator is totalArcs (0 when there is no arc)
interpolateColorByTotal(arcSettings, index, totalArcs) ==
    LET ratio == IF totalArcs = 0 THEN Unset ELSE FDivInt(index, totalArcs)
        channel(k) ==
            FTrunc(FAdd(FOfInt(arcSettings.colorStart[k]),
                        FMul(FOfInt(arcSettings.colorEnd[k] - arcSettings.colorStart[k]),
                             ratio)))
    IN  <<channel(1), channel(2), channel(3)>>

\* interpolateColor: ratio = index / max(totalArcs - 1, 1), then per channel
\* int(colorStart + (colorEnd - colorStart) * ratio)
interpolateColor(arcSettings, index, totalArcs) ==
    LET ratio == FDivInt(index, Max(totalArcs - 1, 1))
        channel(k) ==
            FTrunc(FAdd(FOfInt(arcSettings.colorStart[k]),
                        FMul(FOfInt(arcSettings.colorEnd[k] - arcSettings.colorStart[k]),
                             ratio)))
    IN  <<channel(1), channel(2), channel(3)>>

\* the angle math.pi * i / segments, negated for direction -1, kept as the
\* signed numerator and the denominator of the fraction of pi
Angle(direction, i, segments) == [num |-> direction * i, den |-> segments]

\* one sampled point: x = cx + radius * cos(angle), y = cy + radius * sin(angle);
\* cos and sin are left unevaluated
Point(cx, cy, radius, angle) == [cx |-> cx, cy |-> cy, radius |-> radius, angle |-> angle]

\* drawArc whose direction follows the order of the two values
drawArcByOrder(arcSettings, startVal, endVal, arcIndex, totalArcs, tr) ==
    IF startVal = endVal
    THEN <<>>
    ELSE LET center == FDivInt(startVal + endVal, 2)
             radius == FDivInt(Abs(endVal - startVal), 2)
             direction == IF endVal > startVal THEN 1 ELSE -1
             screenCenterX == FAdd(tr.offsetX, FMul(center, tr.scale))
             screenCenterY == tr.offsetY
             screenRadius == FMul(radius, tr.scale)
             segments == arcSettings.segments
             points == [k \in 1..(segments + 1) |->
                          Point(screenCenterX, screenCenterY, screenRadius,
                                Angle(direction, k - 1, segments))]
         IN  IF Len(points) > 1
             THEN <<<<"lines", interpolateColor(arcSettings, arcIndex, totalArcs),
                      FALSE, points, arcSettings.strokeWeight>>>>
             ELSE <<>>

\* drawArc without the early return for equal values
drawArcNoReturn(arcSettings, startVal, endVal, arcIndex, totalArcs, tr) ==
    LET center == FDivInt(startVal + endVal, 2)
        radius == FDivInt(Abs(endVal - startVal), 2)
        direction == IF arcIndex % 2 = 0 THEN 1 ELSE -1
        screenCenterX == FAdd(tr.offsetX, FMul(center, tr.scale))
        screenCenterY == tr.offsetY
        screenRadius == FMul(radius, tr.scale)
        segments == arcSettings.segments
        points == [k \in 1..(segments + 1) |->
                     Point(screenCenterX, screenCenterY, screenRadius,
                           Angle(direction, k - 1, segments))]
    IN  IF Len(points) > 1
        THEN <<<<"lines", interpolateColor(arcSettings, arcIndex, totalArcs),
                 FALSE, points, arcSettings.strokeWeight>>>>
        ELSE <<>>

\* drawArc: the pygame.draw.lines calls it issues (none or one), each as
\* <<"lines", color, closed, points, width>>
drawArc(arcSettings, startVal, endVal, arcIndex, totalArcs, tr) ==
    IF startVal = endVal
    THEN <<>>
    ELSE LET center == FDivInt(startVal + endVal, 2)
             radius == FDivInt(Abs(endVal - startVal), 2)
             direction == IF arcIndex % 2 = 0 THEN 1 ELSE -1
             screenCenterX == FAdd(tr.offsetX, FMul(center, tr.scale))
             screenCenterY == tr.offsetY
             screenRadius == FMul(radius, tr.scale)
             segments == arcSettings.segments
             points == [k \in 1..(segments + 1) |->
                          Point(screenCenterX, screenCenterY, screenRadius,
                                Angle(direction, k - 1, segments))]
         IN  IF Len(points) > 1
             THEN <<<<"lines", interpolateColor(arcSettings, arcIndex, totalArcs),
                      FALSE, points, arcSettings.strokeWeight>>>>
             ELSE <<>>

\* --------------------------------------------------- RecamanVisualization
\* the events pygame.event.get() can deliver, by event.type and event.key
EventSet ==
    {[type |-> "QUIT", key |-> "none"],
     [type |-> "KEYDOWN", key |-> "K_SPACE"],
     [type |-> "KEYDOWN", key |-> "K_r"],
     [type |-> "KEYDOWN", key |-> "K_ESCAPE"],
     [type |-> "KEYDOWN", key |-> "K_a"],
     [type |-> "MOUSEMOTION", key |-> "none"]}

EventLists == UNION {[1..k -> EventSet] : k \in 0..MaxEvents}

\* the playback fields handleEvents, reset and update work on
View(r, p, c) == [running |-> r, paused |-> p, currentArc |-> c]

\* reset that keeps the index
resetKeep(v) == v

reset(v) == [v EXCEPT !.currentArc = 0]

\* the loop body that sets the flag to True instead of flipping it
handleEventSetPause(v, event) ==
    IF event.type = "QUIT"
    THEN [v EXCEPT !.running = FALSE]
    ELSE IF event.type = "KEYDOWN"
    THEN IF event.key = "K_SPACE"
         THEN [v EXCEPT !.paused = TRUE]
         ELSE IF event.key = "K_r"
         THEN reset(v)
         ELSE IF event.key = "K_ESCAPE"
         THEN [v EXCEPT !.running = FALSE]
         ELSE v
    ELSE v

\* the loop body that ignores the window-close event
handleEventNoQuit(v, event) ==
    IF event.type = "KEYDOWN"
    THEN IF event.key = "K_SPACE"
         THEN [v EXCEPT !.paused = ~v.paused]
         ELSE IF event.key = "K_r"
         THEN reset(v)
         ELSE IF event.key = "K_ESCAPE"
         THEN [v EXCEPT !.running = FALSE]
         ELSE v
    ELSE v

\* body of the for loop of handleEvents, for one event
handleEvent(v, event) ==
    IF event.type = "QUIT"
    THEN [v EXCEPT !.running = FALSE]
    ELSE IF event.type = "KEYDOWN"
    THEN IF event.key = "K_SPACE"
         THEN [v EXCEPT !.paused = ~v.paused]
         ELSE IF event.key = "K_r"
         THEN reset(v)
         ELSE IF event.key = "K_ESCAPE"
         THEN [v EXCEPT !.running = FALSE]
         ELSE v
    ELSE v

\* handleEvents: the for loop over the polled list, in order
RECURSIVE handleEvents(_, _)
handleEvents(v, evs) ==
    IF evs = <<>>
    THEN v
    ELSE handleEvents(handleEvent(v, Head(evs)), Tail(evs))

\* update without the upper limit
updateNoLimit(v, len) ==
    IF ~v.paused
    THEN [v EXCEPT !.currentArc = v.currentArc + 1]
    ELSE v

\* update whose limit is len instead of len - 1
updateOffByOne(v, len) ==
    IF ~v.paused /\ v.currentArc < len
    THEN [v EXCEPT !.currentArc = v.currentArc + 1]
    ELSE v

\* update that advances while paused
updateIgnorePause(v, len) ==
    IF v.currentArc < len - 1
    THEN [v EXCEPT !.currentArc = v.currentArc + 1]
    ELSE v

\* update that reveals two arcs per call
updateByTwo(v, len) ==
    IF ~v.paused /\ v.currentArc < len - 1
    THEN [v EXCEPT !.currentArc = v.currentArc + 2]
    ELSE v

\* update that stops one arc before the last
updateStopShort(v, len) ==
    IF ~v.paused /\ v.currentArc < len - 2
    THEN [v EXCEPT !.currentArc = v.currentArc + 1]
    ELSE v

\* update; len is len(self.sequence.sequence)
update(v, len) ==
    IF ~v.paused /\ v.currentArc < len - 1
    THEN [v EXCEPT !.currentArc = v.currentArc + 1]
    ELSE v

\* Python seq[:k]
SliceTo(seq, k) ==
    IF k >= 0
    THEN SubSeq(seq, 1, Min(k, Len(seq)))
    ELSE SubSeq(seq, 1, Max(Len(seq) + k, 0))

\* no ArcVisualizer method has been called directly
NoCall == [op |-> "none"]

\* the screen transform: self.scale, self.offsetX, self.offsetY
Transform(sc, ox, oy) == [scale |-> sc, offsetX |-> ox, offsetY |-> oy]

\* __init__, lines 109-111: scale = 1.0, offsetX = 0.0, offsetY = height * yPosition
defaultTransform(cfg) ==
    Transform(FOfInt(1), FZero,
              FMul(FOfInt(cfg.windowHeight), cfg.numberLineSettings.yPosition))

\* calculateScaling that divides whatever the maximum is
calculateScalingNoGuard(cfg, seq, tr) ==
    IF ~cfg.autoScaling.enabled
    THEN tr
    ELSE LET max == getMaxValue(seq)
             padding == cfg.autoScaling.padding
         IN  [tr EXCEPT !.scale = IF max = 0 THEN Unset
                                  ELSE FDivInt(cfg.windowWidth - 2 * padding, max),
                        !.offsetX = FOfInt(padding)]

\* calculateScaling that subtracts the padding once
calculateScalingOnePad(cfg, seq, tr) ==
    IF ~cfg.autoScaling.enabled
    THEN tr
    ELSE LET max == getMaxValue(seq)
             padding == cfg.autoScaling.padding
         IN  IF max > 0
             THEN [tr EXCEPT !.scale = FDivInt(cfg.windowWidth - padding, max),
                             !.offsetX = FOfInt(padding)]
             ELSE tr

\* calculateScaling: the transform it leaves, starting from tr
calculateScaling(cfg, seq, tr) ==
    IF ~cfg.autoScaling.enabled
    THEN tr
    ELSE LET max == getMaxValue(seq)
             padding == cfg.autoScaling.padding
         IN  IF max > 0
             THEN [tr EXCEPT !.scale = FDivInt(cfg.windowWidth - 2 * padding, max),
                             !.offsetX = FOfInt(padding)]
             ELSE tr

\* drawNumberLine, line 135: x = self.offsetX + value * self.scale
screenX(value, tr) == FAdd(tr.offsetX, FMul(FOfInt(value), tr.scale))

\* config.json as a record of the settings the modelled code reads
Config(terms, w, h, en, pad, ypos, c0, c1, seg) ==
    [windowWidth |-> w, windowHeight |-> h, maxTerms |-> terms,
     autoScaling |-> [enabled |-> en, padding |-> pad],
     numberLineSettings |-> [yPosition |-> ypos],
     arcSettings |-> [colorStart |-> c0, colorEnd |-> c1, segments |-> seg,
                      strokeWeight |-> 2]]

\* the settings the program specification starts from
Configs ==
    {Config(t, 29, 20, en, pad, FDivInt(1, 2), <<255, 0, 10>>, <<0, 0, 200>>, 3) :
        t \in 0..MaxTerms, en \in BOOLEAN, pad \in {0, 2}}

\* the settings the startup specification starts from
StartConfigs ==
    {Config(t, w, 20, en, pad, FDivInt(q, 4), <<255, 0, 10>>, <<0, 0, 200>>, 3) :
        t \in 0..MaxStartTerms, w \in {29, 30, 58, 640}, en \in BOOLEAN,
        pad \in {0, 1, 2, 5, 20}, q \in 0..4}

\* drawNumberLine: the line, then one marker per value of sequence[:currentArc + 1],
\* each as <<"circle", value, int(x), int(lineY)>>
drawNumberLine(seq, cur, tr) ==
    LET shown == SliceTo(seq, cur + 1)
    IN  <<<<"line">>>> \o [k \in 1..Len(shown) |->
                             <<"circle", shown[k], FTrunc(screenX(shown[k], tr)),
                               FTrunc(tr.offsetY)>>]

\* the arc loop of draw reads sequence[i] and sequence[i + 1] for i in range(currentArc);
\* the first i whose read is out of range raises IndexError
ArcCount(cur) == Max(cur, 0)

FirstBadArc(seq, cur) ==
    IF \E i \in 0..(ArcCount(cur) - 1) : i + 1 >= Len(seq)
    THEN CHOOSE i \in 0..(ArcCount(cur) - 1) :
            /\ i + 1 >= Len(seq)
            /\ \A j \in 0..(i - 1) : j + 1 < Len(seq)
    ELSE -1

\* the arc loop that walks the arcs from the last one down
RECURSIVE drawArcsDescending(_, _, _, _)
drawArcsDescending(cfg, seq, n, tr) ==
    IF n <= 0
    THEN <<>>
    ELSE <<<<"drawArc", At(seq, n - 1), At(seq, n), n - 1, Len(seq) - 1>>>>
         \o drawArc(cfg.arcSettings, At(seq, n - 1), At(seq, n), n - 1, Len(seq) - 1, tr)
         \o drawArcsDescending(cfg, seq, n - 1, tr)

\* the calls of visualizer.drawArc made for arcs 0..n-1, in order, each
\* followed by the drawing calls it issues
RECURSIVE drawArcs(_, _, _, _)
drawArcs(cfg, seq, n, tr) ==
    IF n <= 0
    THEN <<>>
    ELSE drawArcs(cfg, seq, n - 1, tr)
         \o <<<<"drawArc", At(seq, n - 1), At(seq, n), n - 1, Len(seq) - 1>>>>
         \o drawArc(cfg.arcSettings, At(seq, n - 1), At(seq, n), n - 1, Len(seq) - 1, tr)

\* drawInstructions: the counter line "Arc: currentArc/(len - 1)"
drawInstructions(seq, cur) == <<<<"text", cur, Len(seq) - 1>>>>

\* draw: the commands of one frame; stops at the failing read if there is one
draw(cfg, seq, cur, tr) ==
    LET bad == FirstBadArc(seq, cur)
    IN  IF bad >= 0
        THEN <<<<"fill">>>> \o drawNumberLine(seq, cur, tr) \o drawArcs(cfg, seq, bad, tr)
        ELSE <<<<"fill">>>> \o drawNumberLine(seq, cur, tr)
             \o drawArcs(cfg, seq, ArcCount(cur), tr)
             \o drawInstructions(seq, cur) \o <<<<"flip">>>>

\* ------------------------------------------------- the program, step by step
\* the events that change the playback state (pause flag or index)
IsPlaybackInput(event) ==
    event.type = "KEYDOWN" /\ event.key \in {"K_SPACE", "K_r"}

HasPlaybackInput(evs) == \E k \in 1..Len(evs) : IsPlaybackInput(evs[k])

IsQuit(event) ==
    event.type = "QUIT" \/ (event.type = "KEYDOWN" /\ event.key = "K_ESCAPE")

HasQuit(evs) == \E k \in 1..Len(evs) : IsQuit(evs[k])

HasReset(evs) ==
    \E k \in 1..Len(evs) : evs[k].type = "KEYDOWN" /\ evs[k].key = "K_r"

\* number of pause-key presses in the list
RECURSIVE Toggles(_)
Toggles(evs) ==
    IF evs = <<>>
    THEN 0
    ELSE (IF Head(evs).type = "KEYDOWN" /\ Head(evs).key = "K_SPACE" THEN 1 ELSE 0)
         + Toggles(Tail(evs))

\* RecamanVisualization.__init__ up to the call of generateTerms
InitFrom(cfgs) ==
    /\ pc = "init"
    /\ config \in cfgs
    /\ maxTerms = config.maxTerms
    /\ scale = Unset
    /\ offsetX = Unset
    /\ offsetY = Unset
    /\ call = NoCall
    /\ sequence = NewGen.sequence
    /\ seen = NewGen.seen
    /\ currentStep = NewGen.currentStep
    /\ numTerms = 0
    /\ maxValue = 0
    /\ currentArc = 0
    /\ running = TRUE
    /\ paused = FALSE
    /\ events = <<>>
    /\ display = <<>>
    /\ frameLog = <<>>
    /\ baseArc = 0
    /\ ticks = 0

Init == InitFrom(Configs)

\* __init__: self.sequence.generateTerms(self.maxTerms)
Startup ==
    /\ pc = "init"
    /\ LET g == generateTerms(Gen(sequence, seen, currentStep), maxTerms)
       IN  /\ sequence' = g.sequence
           /\ seen' = g.seen
           /\ currentStep' = g.currentStep
    /\ numTerms' = maxTerms
    /\ pc' = "scaling"
    /\ UNCHANGED <<maxTerms, maxValue>>
    /\ UNCHANGED viewVars
    /\ UNCHANGED <<config, scale, offsetX, offsetY, call>>

\* __init__: the default transform, then self.calculateScaling()
CalculateScaling ==
    /\ pc = "scaling"
    /\ LET tr == calculateScaling(config, sequence, defaultTransform(config))
       IN  /\ scale' = tr.scale
           /\ offsetX' = tr.offsetX
           /\ offsetY' = tr.offsetY
    /\ maxValue' = IF config.autoScaling.enabled THEN getMaxValue(sequence) ELSE maxValue
    /\ pc' = "loop"
    /\ UNCHANGED <<config, maxTerms, numTerms, call>>
    /\ UNCHANGED viewVars
    /\ UNCHANGED genVars

\* run: while self.running, with running true
LoopEnter ==
    /\ pc = "loop"
    /\ running
    /\ pc' = "handleEvents"
    /\ frameLog' = <<>>
    /\ UNCHANGED <<maxTerms, numTerms, maxValue, currentArc, running, paused,
                   events, display, baseArc, ticks>>
    /\ UNCHANGED genVars
    /\ UNCHANGED <<config, scale, offsetX, offsetY, call>>

\* run: while self.running, with running false; then pygame.quit()
LoopExit ==
    /\ pc = "loop"
    /\ ~running
    /\ pc' = "done"
    /\ UNCHANGED <<maxTerms, numTerms, maxValue>>
    /\ UNCHANGED viewVars
    /\ UNCHANGED <<config, scale, offsetX, offsetY, call>>
    /\ UNCHANGED genVars

\* handleEvents whose reset key also builds a new generator
HandleEventsRegenerate ==
    /\ pc = "handleEvents"
    /\ \E evs \in EventLists :
         LET v == handleEvents(View(running, paused, currentArc), evs)
         IN  /\ events' = evs
             /\ running' = v.running
             /\ paused' = v.paused
             /\ currentArc' = v.currentArc
             /\ baseArc' = IF HasPlaybackInput(evs) THEN v.currentArc ELSE baseArc
             /\ ticks' = IF HasPlaybackInput(evs) THEN 0 ELSE ticks
             /\ sequence' = IF HasReset(evs) THEN NewGen.sequence ELSE sequence
             /\ seen' = IF HasReset(evs) THEN NewGen.seen ELSE seen
             /\ currentStep' = IF HasReset(evs) THEN NewGen.currentStep ELSE currentStep
    /\ frameLog' = Append(frameLog, "handleEvents")
    /\ pc' = "update"
    /\ UNCHANGED <<maxTerms, numTerms, maxValue, display>>
    /\ UNCHANGED <<config, scale, offsetX, offsetY, call>>

\* run: self.handleEvents()
HandleEvents ==
    /\ pc = "handleEvents"
    /\ \E evs \in EventLists :
         LET v == handleEvents(View(running, paused, currentArc), evs)
         IN  /\ events' = evs
             /\ running' = v.running
             /\ paused' = v.paused
             /\ currentArc' = v.currentArc
             /\ baseArc' = IF HasPlaybackInput(evs) THEN v.currentArc ELSE baseArc
             /\ ticks' = IF HasPlaybackInput(evs) THEN 0 ELSE ticks
    /\ frameLog' = Append(frameLog, "handleEvents")
    /\ pc' = "update"
    /\ UNCHANGED <<maxTerms, numTerms, maxValue, display>>
    /\ UNCHANGED genVars
    /\ UNCHANGED <<config, scale, offsetX, offsetY, call>>

\* run: self.update()
Update ==
    /\ pc = "update"
    /\ LET v == update(View(running, paused, currentArc), Len(sequence))
       IN  /\ running' = v.running
           /\ paused' = v.paused
           /\ currentArc' = v.currentArc
    /\ IF ticks < TickBound
       THEN /\ ticks' = ticks + 1
            /\ baseArc' = baseArc
       ELSE /\ ticks' = 1
            /\ baseArc' = currentArc
    /\ events' = <<>>
    /\ frameLog' = Append(frameLog, "update")
    /\ pc' = "draw"
    /\ UNCHANGED <<maxTerms, numTerms, maxValue, display>>
    /\ UNCHANGED genVars
    /\ UNCHANGED <<config, scale, offsetX, offsetY, call>>

\* run: self.draw()
Draw ==
    /\ pc = "draw"
    /\ display' = draw(config, sequence, currentArc, Transform(scale, offsetX, offsetY))
    /\ IF FirstBadArc(sequence, currentArc) >= 0
       THEN /\ pc' = "crashed"
            /\ frameLog' = frameLog
       ELSE /\ pc' = "tick"
            /\ frameLog' = Append(frameLog, "draw")
    /\ UNCHANGED <<maxTerms, numTerms, maxValue, currentArc, running, paused,
                   events, baseArc, ticks>>
    /\ UNCHANGED genVars
    /\ UNCHANGED <<config, scale, offsetX, offsetY, call>>

\* run: self.clock.tick(...)
ClockTick ==
    /\ pc = "tick"
    /\ frameLog' = Append(frameLog, "tick")
    /\ pc' = "loop"
    /\ UNCHANGED <<maxTerms, numTerms, maxValue, currentArc, running, paused,
                   events, display, baseArc, ticks>>
    /\ UNCHANGED genVars
    /\ UNCHANGED <<config, scale, offsetX, offsetY, call>>

Next ==
    \/ Startup
    \/ CalculateScaling
    \/ LoopEnter
    \/ LoopExit
    \/ HandleEvents
    \/ Update
    \/ Draw
    \/ ClockTick

Spec == Init /\ [][Next]_vars

\* the positions of the single thread of the program
ProgramPoints ==
    {"init", "scaling", "loop", "handleEvents", "update", "draw", "tick", "done",
     "crashed"}

\* the thread moves on to another position; every step of Next is such a step,
\* and one is possible exactly when the program has not ended
Advance == pc \notin {"done", "crashed"} /\ pc' \in ProgramPoints /\ pc' # pc

\* the interpreter keeps executing the single thread of run()
FairSpec == Spec /\ WF_pc(Advance)

\* ------------------------------------------- the constructor on its own
StartInit == InitFrom(StartConfigs)

StartNext ==
    \/ Startup
    \/ CalculateScaling

StartSpec == StartInit /\ [][StartNext]_vars

\* ------------------------------------- the ArcVisualizer class, call by call
ColourPairs ==
    {<<<<255, 0, 10>>, <<0, 0, 200>>>>,
     <<<<0, 90, 7>>, <<90, 0, 8>>>>}

ArcConfigs ==
    {Config(0, 29, 20, TRUE, 0, FDivInt(1, 2), cp[1], cp[2], seg) :
        cp \in ColourPairs, seg \in 2..MaxSegments}

ArcTransforms ==
    {Transform(FOfInt(1), FZero, FOfInt(10)),
     Transform(FDivInt(29, 7), FOfInt(2), FDivInt(15, 2))}

ArcInit ==
    /\ pc = "newArc"
    /\ config \in ArcConfigs
    /\ scale = Unset
    /\ offsetX = Unset
    /\ offsetY = Unset
    /\ call = NoCall
    /\ maxTerms = 0
    /\ sequence = NewGen.sequence
    /\ seen = NewGen.seen
    /\ currentStep = NewGen.currentStep
    /\ numTerms = 0
    /\ maxValue = 0
    /\ currentArc = 0
    /\ running = TRUE
    /\ paused = FALSE
    /\ events = <<>>
    /\ display = <<>>
    /\ frameLog = <<>>
    /\ baseArc = 0
    /\ ticks = 0

CallInterpolateColor ==
    /\ \E totalArcs \in 1..MaxArcs : \E index \in 0..(totalArcs - 1) :
         call' = [op |-> "interpolateColor", index |-> index, totalArcs |-> totalArcs,
                  result |-> interpolateColor(config.arcSettings, index, totalArcs)]
    /\ display' = <<>>
    /\ pc' = "interpolateColor"
    /\ UNCHANGED <<config, maxTerms, numTerms, maxValue, scale, offsetX, offsetY>>
    /\ UNCHANGED <<currentArc, running, paused, events, frameLog, baseArc, ticks>>
    /\ UNCHANGED genVars

CallDrawArc ==
    /\ \E startVal \in 0..MaxVal, endVal \in 0..MaxVal, arcIndex \in 0..2,
          tr \in ArcTransforms :
         /\ call' = [op |-> "drawArc", startVal |-> startVal, endVal |-> endVal,
                     arcIndex |-> arcIndex, totalArcs |-> MaxArcs, tr |-> tr]
         /\ display' = drawArc(config.arcSettings, startVal, endVal, arcIndex, MaxArcs, tr)
    /\ pc' = "drawArc"
    /\ UNCHANGED <<config, maxTerms, numTerms, maxValue, scale, offsetX, offsetY>>
    /\ UNCHANGED <<currentArc, running, paused, events, frameLog, baseArc, ticks>>
    /\ UNCHANGED genVars

ArcNext ==
    \/ CallInterpolateColor
    \/ CallDrawArc

ArcSpec == ArcInit /\ [][ArcNext]_vars

\* --------------------------------------- the generator class, call by call
GenInit ==
    /\ pc = "new"
    /\ config = "none"
    /\ scale = Unset
    /\ offsetX = Unset
    /\ offsetY = Unset
    /\ call = NoCall
    /\ maxTerms = 0
    /\ sequence = NewGen.sequence
    /\ seen = NewGen.seen
    /\ currentStep = NewGen.currentStep
    /\ numTerms = 0
    /\ maxValue = 0
    /\ currentArc = 0
    /\ running = TRUE
    /\ paused = FALSE
    /\ events = <<>>
    /\ display = <<>>
    /\ frameLog = <<>>
    /\ baseArc = 0
    /\ ticks = 0

CallGenerateNext ==
    /\ Len(sequence) < MaxLen
    /\ LET g == generateNext(Gen(sequence, seen, currentStep))
       IN  /\ sequence' = g.sequence
           /\ seen' = g.seen
           /\ currentStep' = g.currentStep
    /\ pc' = "generateNext"
    /\ UNCHANGED <<maxTerms, numTerms, maxValue>>
    /\ UNCHANGED viewVars
    /\ UNCHANGED <<config, scale, offsetX, offsetY, call>>

CallGenerateTerms ==
    /\ \E n \in 0..MaxLen :
         LET g == generateTerms(Gen(sequence, seen, currentStep), n)
         IN  /\ sequence' = g.sequence
             /\ seen' = g.seen
             /\ currentStep' = g.currentStep
             /\ numTerms' = n
    /\ pc' = "generateTerms"
    /\ UNCHANGED <<maxTerms, maxValue>>
    /\ UNCHANGED viewVars
    /\ UNCHANGED <<config, scale, offsetX, offsetY, call>>

CallGetMaxValue ==
    /\ maxValue' = getMaxValue(sequence)
    /\ pc' = "getMaxValue"
    /\ UNCHANGED <<maxTerms, numTerms>>
    /\ UNCHANGED viewVars
    /\ UNCHANGED <<config, scale, offsetX, offsetY, call>>
    /\ UNCHANGED genVars

GenNext ==
    \/ CallGenerateNext
    \/ CallGenerateTerms
    \/ CallGetMaxValue

GenSpec == GenInit /\ [][GenNext]_vars

\* ------------------------------------------------------------- properties
\* totalArcs = len(self.sequence.sequence) - 1
TotalArcs == Len(sequence) - 1

\* the generator as __init__ leaves it
Fresh == sequence = <<0>> /\ seen = {0} /\ currentStep = 1

\* C1: every term after the seed is the previous term minus its index when that
\* candidate is strictly positive and differs from all earlier terms, otherwise
\* the previous term plus its index; the n-th call works with step n, so the
\* step counter always equals the number of terms.
C1_SelectionRule ==
    /\ currentStep = Len(sequence)
    /\ \A n \in 1..(Len(sequence) - 1) :
         LET prev == At(sequence, n - 1)
             cand == prev - n
         IN  At(sequence, n) =
                IF cand > 0 /\ \A k \in 0..(n - 1) : At(sequence, k) # cand
                THEN cand
                ELSE prev + n

\* a positive candidate was rejected because it had already appeared
C1_Witness ==
    /\ pc = "generateNext"
    /\ \E n \in 1..(Len(sequence) - 1) :
         /\ At(sequence, n - 1) - n > 0
         /\ \E k \in 0..(n - 1) : At(sequence, k) = At(sequence, n - 1) - n
         /\ At(sequence, n) = At(sequence, n - 1) + n
    /\ \E n \in 1..(Len(sequence) - 1) : At(sequence, n) = At(sequence, n - 1) - n

\* the ten terms the code produces
FirstTen == <<0, 1, 3, 6, 2, 7, 13, 20, 12, 21>>

\* C2 as stated: generateTerms(10) on a fresh generator leaves
\* [0,1,3,2,6,5,10,9,15,8], getMaxValue on it returns 15, and getMaxValue on
\* the seed-only sequence returns 0.
C2_GoldenAsStated ==
    /\ [][(Fresh /\ pc' = "generateTerms" /\ numTerms' = 10)
            => sequence' = <<0, 1, 3, 2, 6, 5, 10, 9, 15, 8>>]_vars
    /\ []((pc = "getMaxValue" /\ Len(sequence) = 10) => maxValue = 15)
    /\ []((pc = "getMaxValue" /\ sequence = <<0>>) => maxValue = 0)

\* C2 amended: generateTerms(10) on a fresh generator leaves
\* [0,1,3,6,2,7,13,20,12,21], getMaxValue on it returns 21, and getMaxValue on
\* the seed-only sequence returns 0.
C2_Golden ==
    /\ [][(Fresh /\ pc' = "generateTerms" /\ numTerms' = 10)
            => sequence' = FirstTen]_vars
    /\ []((pc = "getMaxValue" /\ Len(sequence) = 10)
            => (sequence = FirstTen /\ maxValue = 21))
    /\ []((pc = "getMaxValue" /\ sequence = <<0>>) => maxValue = 0)

\* getMaxValue was called on the ten terms built by generateTerms(10)
C2_Witness ==
    /\ pc = "getMaxValue"
    /\ numTerms = 10
    /\ Len(sequence) = 10
    /\ maxValue = 21

\* C3: counting from a state with currentArc = 0 and paused = false, after N
\* update calls with no pause or reset input in between the index is
\* min(N, totalArcs); an unpaused tick below totalArcs adds exactly 1 and an
\* unpaused tick at totalArcs changes nothing.
C3_TickAdvance ==
    /\ []((~paused /\ baseArc = 0) => currentArc = Min(ticks, TotalArcs))
    /\ [][(pc = "update" /\ ~paused)
            => currentArc' = IF currentArc < TotalArcs
                             THEN currentArc + 1
                             ELSE currentArc]_vars

\* more ticks than arcs have run since the index was 0, and the index stopped at totalArcs
C3_Witness ==
    /\ pc = "draw"
    /\ ~paused
    /\ baseArc = 0
    /\ TotalArcs >= 2
    /\ ticks > TotalArcs
    /\ currentArc = TotalArcs

\* C4: in every reachable state 0 <= currentArc <= totalArcs; the draw step
\* never reads the sequence out of range and every arc it draws has an index
\* in 0..totalArcs-1.
C4_IndexInRange ==
    /\ 0 <= currentArc
    /\ currentArc <= TotalArcs
    /\ pc # "crashed"
    /\ FirstBadArc(sequence, currentArc) = -1
    /\ \A k \in 1..Len(display) :
         display[k][1] = "drawArc" => display[k][4] \in 0..(TotalArcs - 1)

\* a frame was drawn with every arc revealed
C4_Witness ==
    /\ pc = "tick"
    /\ TotalArcs >= 2
    /\ currentArc = TotalArcs
    /\ \E k \in 1..Len(display) :
         display[k][1] = "drawArc" /\ display[k][4] = TotalArcs - 1

\* C5: a tick never changes the paused flag; while paused no step other than
\* the handling of a reset changes currentArc, so after any number of ticks
\* the index still has the value it had when the pause began.
C5_PausedTicks ==
    /\ [][pc = "update" => paused' = paused]_vars
    /\ [][(paused /\ ~(pc = "handleEvents" /\ HasReset(events')))
            => currentArc' = currentArc]_vars
    /\ [](paused => currentArc = baseArc)

\* several ticks have run while paused in the middle of the animation
C5_Witness ==
    /\ pc = "draw"
    /\ paused
    /\ ticks >= 3
    /\ 0 < currentArc
    /\ currentArc < TotalArcs

\* C6: handling a reset event leaves currentArc = 0 whatever it was, leaves
\* paused as it was (no pause key in the same poll) and leaves the sequence,
\* the seen-set and the step counter untouched.
C6_Reset ==
    [][(pc = "handleEvents" /\ HasReset(events'))
         => /\ currentArc' = 0
            /\ (Toggles(events') = 0 => paused' = paused)
            /\ (~HasQuit(events') => running' = running)
            /\ genVars' = genVars]_vars

\* a lone reset was handled while paused, after a frame that showed every arc
C6_Witness ==
    /\ pc = "update"
    /\ Len(events) = 1
    /\ HasReset(events)
    /\ paused
    /\ TotalArcs >= 2
    /\ currentArc = 0
    /\ \E k \in 1..Len(display) : display[k] = <<"text", TotalArcs, TotalArcs>>

\* C7: each pause key flips the flag in every state, so one poll with an odd
\* number of them inverts paused and one with an even number (two toggles)
\* restores it; without a reset in the poll currentArc is unchanged.
C7_TogglePause ==
    [][pc = "handleEvents"
         => /\ paused' = (IF Toggles(events') % 2 = 1 THEN ~paused ELSE paused)
            /\ (~HasReset(events') => currentArc' = currentArc)]_vars

\* a single toggle was handled at Finished and turned the pause on
C7_Witness ==
    /\ pc = "update"
    /\ Len(events) = 1
    /\ Toggles(events) = 1
    /\ paused
    /\ TotalArcs >= 2
    /\ currentArc = TotalArcs

\* C8: handling a quit event (window close or exit key) clears running in any
\* state and the frame goes on to its tick; running is never set again and no
\* further frame is started; the loop ends, and when it has ended the last
\* frame has run all of handleEvents, update, draw and clock tick.
C8_Quit ==
    /\ [][(pc = "handleEvents" /\ HasQuit(events'))
            => (~running' /\ pc' = "update")]_vars
    /\ [][~running => (~running' /\ pc' # "handleEvents")]_vars
    /\ [](pc = "done"
            => (~running /\ frameLog = <<"handleEvents", "update", "draw", "tick">>))
    /\ (~running ~> pc = "done")

\* the loop has ended after a quit that arrived while paused in mid-animation
C8_Witness ==
    /\ pc = "done"
    /\ ~running
    /\ paused
    /\ 0 < currentArc
    /\ currentArc < TotalArcs

\* C9: the seen-set holds exactly the values of the sequence; no step removes
\* an element; a call that appends terms keeps the earlier terms and adds
\* every new term to the set in the same step, and generateNext adds exactly
\* the one term it appends.
C9_SeenLockstep ==
    /\ [](seen = Range(sequence))
    /\ [][/\ seen \subseteq seen'
          /\ Len(sequence') >= Len(sequence)
          /\ SubSeq(sequence', 1, Len(sequence)) = sequence
          /\ seen' = seen \cup {sequence'[k] : k \in (Len(sequence) + 1)..Len(sequence')}
          /\ (pc' = "generateNext" => Len(sequence') = Len(sequence) + 1)]_vars

\* generateNext has just appended a term and all terms so far are distinct
C9_Witness ==
    /\ pc = "generateNext"
    /\ Len(sequence) >= 5
    /\ Cardinality(seen) = Len(sequence)
    /\ Last(sequence) \in seen

\* C10: a generateTerms(n) call ends with max(previous length, n) terms after
\* exactly max(0, n - previous length) generateNext calls (one step-counter
\* increment each), and changes nothing when the sequence already holds n
\* terms; the call at startup is made with n = maxTerms.
C10_GenerateTerms ==
    [][(pc' = "generateTerms" \/ pc = "init")
         => /\ Len(sequence') = Max(Len(sequence), numTerms')
            /\ currentStep' - currentStep = Max(0, numTerms' - Len(sequence))
            /\ Len(sequence') - Len(sequence) = Max(0, numTerms' - Len(sequence))
            /\ (Len(sequence) >= numTerms' => genVars' = genVars)
            /\ (pc = "init" => numTerms' = maxTerms)]_vars

\* generateTerms was called for fewer terms than the generator already held
C10_Witness ==
    /\ pc = "generateTerms"
    /\ 1 < numTerms
    /\ numTerms < Len(sequence)


\* ------------------------------------------------------------------ C11
\* the largest term of the generated sequence, 0 for an empty one
SeqMax ==
    IF sequence = <<>>
    THEN 0
    ELSE CHOOSE m \in Range(sequence) : \A x \in Range(sequence) : x <= m

\* C11: once the constructor has finished, offsetY is windowHeight * yPosition;
\* scale is 1.0 and offsetX is 0.0 when auto-scaling is disabled or the largest
\* term is not positive; otherwise scale is (windowWidth - 2 * padding) / maximum
\* and offsetX is the padding
C11_Transform ==
    pc = "loop" =>
        /\ offsetY = FMul(FOfInt(config.windowHeight), config.numberLineSettings.yPosition)
        /\ IF ~config.autoScaling.enabled \/ SeqMax <= 0
           THEN scale = FOfInt(1) /\ offsetX = FZero
           ELSE /\ scale = FDivInt(config.windowWidth - 2 * config.autoScaling.padding,
                                   SeqMax)
                /\ offsetX = FOfInt(config.autoScaling.padding)

\* auto-scaling is enabled, the only term is 0, and the constructor has finished
C11_Witness ==
    /\ pc = "loop"
    /\ config.autoScaling.enabled
    /\ config.autoScaling.padding > 0
    /\ sequence = <<0>>
    /\ scale = FOfInt(1)

\* ------------------------------------------------------------------ C12
\* the float a channel holds before int() is applied
ChannelValue(arcSettings, k, index, totalArcs) ==
    FAdd(FOfInt(arcSettings.colorStart[k]),
         FMul(FOfInt(arcSettings.colorEnd[k] - arcSettings.colorStart[k]),
              FDivInt(index, Max(totalArcs - 1, 1))))

\* C12: every call interpolateColor(index, N) returns colorStart for index 0
\* (also for N = 1), colorEnd for index N - 1 when N > 1, and per channel the
\* integer part of colorStart + (colorEnd - colorStart) * index / max(N - 1, 1);
\* of two calls with the same N the one with the larger index returns a
\* channel that is not smaller where colorEnd >= colorStart and not larger
\* where colorEnd < colorStart
C12_InterpolateColor ==
    [][call'.op = "interpolateColor" =>
         LET a == config.arcSettings
             n == call'.totalArcs
             i == call'.index
             c == call'.result
         IN  /\ i = 0 => c = a.colorStart
             /\ (n > 1 /\ i = n - 1) => c = a.colorEnd
             /\ \A k \in 1..3 :
                  /\ c[k] >= 0
                  /\ FCmp(FOfInt(c[k]), ChannelValue(a, k, i, n)) <= 0
                  /\ FCmp(ChannelValue(a, k, i, n), FOfInt(c[k] + 1)) < 0
             /\ (call.op = "interpolateColor" /\ call.totalArcs = n /\ call.index <= i) =>
                  \A k \in 1..3 :
                     IF a.colorEnd[k] >= a.colorStart[k]
                     THEN call.result[k] <= c[k]
                     ELSE call.result[k] >= c[k]]_vars

\* the last index of more than one arc was asked for and gave colorEnd, which
\* differs from colorStart in every channel
C12_Witness ==
    /\ call.op = "interpolateColor"
    /\ call.totalArcs > 1
    /\ call.index = call.totalArcs - 1
    /\ call.result = config.arcSettings.colorEnd
    /\ \A k \in 1..3 : config.arcSettings.colorEnd[k] # config.arcSettings.colorStart[k]

\* ------------------------------------------------------------------ C13
\* C13: a call of drawArc with startVal = endVal returns without issuing any
\* drawing call; a call with startVal # endVal issues exactly one
\* pygame.draw.lines call, not closed, over exactly segments + 1 points
C13_DrawArc ==
    call.op = "drawArc" =>
        /\ pc = "drawArc"
        /\ IF call.startVal = call.endVal
           THEN display = <<>>
           ELSE /\ Len(display) = 1
                /\ display[1][1] = "lines"
                /\ display[1][3] = FALSE
                /\ Len(display[1][4]) = config.arcSettings.segments + 1

\* drawArc was called with two equal values and drew nothing
C13_Witness ==
    /\ call.op = "drawArc"
    /\ call.startVal = call.endVal
    /\ call.startVal > 0
    /\ display = <<>>

\* ------------------------------------------------------------------ C14
\* the direction the claim assigns to an arc index: 1 (up) for even, -1 for odd
ParityDirection(arcIndex) == IF arcIndex % 2 = 0 THEN 1 ELSE -1

\* a call of drawArc that drew a polyline
DrewArc(c, d) == c.op = "drawArc" /\ c.startVal # c.endVal /\ Len(d) = 1

\* C14: the points of a drawn arc are sampled at the angles
\* direction * pi * i / segments, i = 0..segments, where direction is 1 for an
\* even arcIndex and -1 for an odd one, whichever value is larger; a second
\* call with the two values swapped draws the same polyline (same center,
\* radius and direction); a second call for the next arcIndex samples the
\* negated angles
C14_Direction ==
    [][DrewArc(call', display') =>
         LET points == display'[1][4]
             segments == config.arcSettings.segments
         IN  /\ \A k \in 1..Len(points) :
                  points[k].angle = [num |-> ParityDirection(call'.arcIndex) * (k - 1),
                                     den |-> segments]
             /\ (/\ DrewArc(call, display)
                 /\ call.tr = call'.tr
                 /\ call.arcIndex = call'.arcIndex
                 /\ call.startVal = call'.endVal
                 /\ call.endVal = call'.startVal)
                => display' = display
             /\ (DrewArc(call, display) /\ call'.arcIndex = call.arcIndex + 1)
                => \A k \in 1..Len(points) :
                     points[k].angle.num = - display[1][4][k].angle.num]_vars

\* an arc with an odd index whose end value is the larger one was drawn
\* downwards: its last point is at the angle -pi
C14_Witness ==
    /\ DrewArc(call, display)
    /\ call.arcIndex % 2 = 1
    /\ call.endVal > call.startVal
    /\ display[1][4][config.arcSettings.segments + 1].angle.num
          = - config.arcSettings.segments

\* ------------------------------------------------------------------ C15
\* the stage of a frame a drawing command belongs to
Phase(cmd) ==
    IF cmd[1] = "fill" THEN 1
    ELSE IF cmd[1] \in {"line", "circle"} THEN 2
    ELSE IF cmd[1] \in {"drawArc", "lines"} THEN 3
    ELSE IF cmd[1] = "text" THEN 4
    ELSE 5

IsMarker(cmd) == cmd[1] = "circle"

IsArcCall(cmd) == cmd[1] = "drawArc"

\* the commands d of one frame are: the fill, the number line with one marker
\* per position 0..cur of seq, the arcs 0..cur-1 in ascending order, the
\* counter text cur / (len - 1), the flip
FrameOrder(d, seq, cur) ==
    LET markers == SelectSeq(d, IsMarker)
        arcs == SelectSeq(d, IsArcCall)
    IN  /\ Len(d) >= 4
        /\ d[1] = <<"fill">>
        /\ d[2] = <<"line">>
        /\ d[Len(d) - 1] = <<"text", cur, Len(seq) - 1>>
        /\ d[Len(d)] = <<"flip">>
        /\ \A k \in 1..(Len(d) - 1) : Phase(d[k]) <= Phase(d[k + 1])
        /\ \A k \in 2..(Len(d) - 2) : Phase(d[k]) \in {2, 3}
        /\ Len(markers) = cur + 1
        /\ \A k \in 1..Len(markers) : markers[k][2] = seq[k]
        /\ Len(arcs) = cur
        /\ \A i \in 1..Len(arcs) :
             arcs[i] = <<"drawArc", seq[i], seq[i + 1], i - 1, Len(seq) - 1>>

\* C15: every draw step leaves currentArc and paused as they were and issues
\* the frame's commands in the fixed order clear, number line with markers
\* for positions 0..currentArc, arcs 0..currentArc - 1 ascending, counter text,
\* present
C15_DrawOrder ==
    [][pc = "draw" =>
         /\ currentArc' = currentArc
         /\ paused' = paused
         /\ pc' = "tick"
         /\ FrameOrder(display', sequence, currentArc)]_vars

\* a frame with three arcs has been drawn
C15_Witness ==
    /\ pc = "tick"
    /\ currentArc = 3
    /\ Len(SelectSeq(display, IsArcCall)) = 3
    /\ display[Len(display)] = <<"flip">>

\* ------------------------------------------------------------------ C16
\* the phases of one pass of the loop of run(), in program order
FramePhases == <<"handleEvents", "update", "draw", "tick">>

\* how many phases of the current frame are done at a program position
PhasesDone(p) ==
    IF p = "update" THEN 1
    ELSE IF p = "draw" THEN 2
    ELSE IF p = "tick" THEN 3
    ELSE IF p = "loop" THEN 4
    ELSE 0

\* the index shown by the latest completed draw
DrawnArc == display[Len(display) - 1][2]

\* C16: within a frame the phases run in the order poll events, update, draw,
\* clock wait, each once; and the index a frame draws is the previously drawn
\* index or that index plus 1, unless a reset key was polled in the frame, in
\* which case it is 0 or 1
C16_FrameOrder ==
    [][/\ pc' \in {"update", "draw", "tick"} =>
            frameLog' = SubSeq(FramePhases, 1, PhasesDone(pc'))
       /\ pc' = "handleEvents" => frameLog' = <<>>
       /\ (pc' = "loop" /\ pc = "tick") => frameLog' = FramePhases
       /\ (pc = "update" /\ display # <<>>) =>
            /\ pc' = "draw"
            /\ IF HasReset(events)
               THEN currentArc' \in {0, 1}
               ELSE currentArc' \in {DrawnArc, DrawnArc + 1}]_vars

\* a second frame is about to draw an index one above the one on screen, and
\* it polled its events and updated once
C16_Witness ==
    /\ pc = "draw"
    /\ display # <<>>
    /\ currentArc = DrawnArc + 1
    /\ currentArc >= 2
    /\ frameLog = <<"handleEvents", "update">>

\* ------------------------------------------------------------------ C17
\* C17: once the constructor has finished, no step of the program changes the
\* sequence, the seen-set, the step counter, scale, offsetX or offsetY, and the
\* steps of the loop change no program attribute other than currentArc,
\* paused and running
C17_Frame ==
    [][pc \notin {"init", "scaling"} =>
         /\ sequence' = sequence
         /\ seen' = seen
         /\ currentStep' = currentStep
         /\ scale' = scale
         /\ offsetX' = offsetX
         /\ offsetY' = offsetY
         /\ maxTerms' = maxTerms
         /\ config' = config]_vars

\* a frame polled a reset key after arcs had been drawn, and the generated
\* sequence and the computed transform are still in place
C17_Witness ==
    /\ pc = "update"
    /\ HasReset(events)
    /\ display # <<>>
    /\ Len(sequence) = maxTerms
    /\ maxTerms >= 2
    /\ config.autoScaling.enabled
    /\ scale = FDivInt(config.windowWidth - 2 * config.autoScaling.padding, SeqMax)

\* ------------------------------------------------------------------ C18
\* auto-scaling took effect: it is enabled and the largest term is positive
Scaled == pc = "loop" /\ config.autoScaling.enabled /\ SeqMax > 0

\* the right-hand limit windowWidth - padding
RightEdge == FOfInt(config.windowWidth - config.autoScaling.padding)

LeftEdge == FOfInt(config.autoScaling.padding)

\* where the markers of the generated sequence are placed
MarkerX(v) == screenX(v, Transform(scale, offsetX, offsetY))

\* 2^-20
Tolerance == FMul(FDivInt(1, 1024), FDivInt(1, 1024))

\* C18 as stated: with auto-scaling in effect every term v is placed at
\* padding <= screenX <= windowWidth - padding, 0 at padding and the largest
\* term at windowWidth - padding
C18_FitAsStated ==
    Scaled =>
        /\ \A v \in Range(sequence) :
             /\ FCmp(LeftEdge, MarkerX(v)) <= 0
             /\ FCmp(MarkerX(v), RightEdge) <= 0
        /\ MarkerX(0) = LeftEdge
        /\ MarkerX(SeqMax) = RightEdge

\* C18: with auto-scaling in effect, 0 is placed exactly at padding; when
\* 2 * padding <= windowWidth every term v is placed at
\* padding <= screenX < windowWidth - padding + 2^-20 and the largest term
\* within 2^-20 of windowWidth - padding, on either side of it; when
\* 2 * padding > windowWidth the scale is negative and every term is placed
\* at screenX <= padding
C18_Fit ==
    Scaled =>
        /\ MarkerX(0) = LeftEdge
        /\ IF 2 * config.autoScaling.padding <= config.windowWidth
           THEN /\ \A v \in Range(sequence) :
                     /\ FCmp(LeftEdge, MarkerX(v)) <= 0
                     /\ FCmp(MarkerX(v), FAdd(RightEdge, Tolerance)) < 0
                /\ FCmp(FAdd(RightEdge, FNeg(Tolerance)), MarkerX(SeqMax)) < 0
           ELSE /\ scale.s = -1
                /\ \A v \in Range(sequence) : FCmp(MarkerX(v), LeftEdge) <= 0

\* the padding fits twice into the width and the largest term is placed to
\* the right of windowWidth - padding
C18_Witness ==
    /\ Scaled
    /\ 2 * config.autoScaling.padding <= config.windowWidth
    /\ FCmp(MarkerX(SeqMax), RightEdge) > 0

\* ------------------------------------------------------------------ C19
\* every arc is revealed
Finished == currentArc = TotalArcs

\* the loop is running unpaused and the events polled in the current frame
\* hold no reset key, no pause key and no quit
Quiet ==
    /\ running
    /\ ~paused
    /\ ~HasPlaybackInput(events)
    /\ ~HasQuit(events)

\* C19: a frame that polls a reset key while every arc is revealed puts the
\* index back to 0; an unpaused update below the last arc advances the index
\* by one; and if from some frame on the loop runs unpaused and polls no
\* reset, pause or quit event, then from some point on the index is at
\* totalArcs for good
C19_NotAbsorbing ==
    /\ [][(pc = "handleEvents" /\ Finished /\ HasReset(events')) => currentArc' = 0]_vars
    /\ [][(pc = "update" /\ ~paused /\ ~Finished) => currentArc' = currentArc + 1]_vars
    /\ (<>[]Quiet => <>[]Finished)

\* the frame on screen shows every arc, and the current frame has polled a
\* reset key that put the index back to 0 with the animation running
C19_Witness ==
    /\ pc = "update"
    /\ HasReset(events)
    /\ display # <<>>
    /\ DrawnArc = TotalArcs
    /\ TotalArcs >= 2
    /\ currentArc = 0
    /\ running
    /\ ~paused

\* ------------------------------------------------------------------ C20
\* arc settings and the transform with scale 1.0 and no offset, under which
\* screen radius and radius in sequence values coincide
UnitArcSettings ==
    [colorStart |-> <<255, 0, 10>>, colorEnd |-> <<0, 0, 200>>, segments |-> 2,
     strokeWeight |-> 2]

UnitTransform == Transform(FOfInt(1), FZero, FZero)

\* what draw() passes to drawArc for the last arc of the sequence
LastArc ==
    drawArc(UnitArcSettings, At(sequence, Len(sequence) - 2),
            At(sequence, Len(sequence) - 1), Len(sequence) - 2, Len(sequence) - 1,
            UnitTransform)

\* C20: in every generator state the seed is 0 and every later term n is
\* positive and differs from its predecessor by exactly n; so drawArc, given
\* the last two terms as arc n - 1, does not take its equal-values return but
\* draws a polyline whose radius is n / 2
C20_StepSize ==
    /\ At(sequence, 0) = 0
    /\ \A n \in 1..(Len(sequence) - 1) :
         /\ Abs(At(sequence, n) - At(sequence, n - 1)) = n
         /\ At(sequence, n) > 0
    /\ Len(sequence) >= 2 =>
         /\ Len(LastArc) = 1
         /\ \A k \in 1..Len(LastArc[1][4]) :
              LastArc[1][4][k].radius = FDivInt(Len(sequence) - 1, 2)

\* the generator has passed term 18, the first whose candidate (7) is positive
\* but already present, so that the term is the sum 25
C20_Witness ==
    /\ Len(sequence) >= 19
    /\ At(sequence, 17) - 18 > 0
    /\ At(sequence, 18) = At(sequence, 17) + 18
    /\ pc = "generateNext"

====
